---- MODULE Spec2Model ----
(***************************************************************************)
(* A model of lib/ansible/modules/network/edgeos/edgeos_config.py: the     *)
(* candidate normaliser (config_to_commands, get_candidate), the           *)
(* reconciler (diff_config), the unmanaged promoter (delete_unmanaged)     *)
(* and the driver (run).                                                   *)
(*                                                                         *)
(* A Python string is a sequence of one-character strings, so that         *)
(* startswith, replace, rsplit and re.sub act on characters as they do in  *)
(* the code.  A text (the joined lines, the src blob, the device's         *)
(* configuration) is the sequence of its lines, i.e. what split('\n') or   *)
(* splitlines() makes of it.                                               *)
(***************************************************************************)
EXTENDS Naturals, Sequences, FiniteSets

\* ------------------------------------------------------------ bounds
\* The longest `lines` argument and the longest device configuration.
MaxLines == 2
MaxLive == 2

\* ------------------------------------------------------------ strings
Range(s) == {s[i] : i \in 1..Len(s)}

\* The characters in code point order (Python compares str by code point).
Alphabet ==
  <<" ", "'", "a", "b", "c", "d", "e", "l", "s", "t", "x", "y", "{", "}">>

Ord(c) == CHOOSE i \in 1..Len(Alphabet) : Alphabet[i] = c

\* str.__lt__
LexLess(s, t) ==
  \E k \in 0..Len(s) :
    /\ k <= Len(t)
    /\ \A i \in 1..k : s[i] = t[i]
    /\ \/ k = Len(s) /\ k < Len(t)
       \/ k < Len(s) /\ k < Len(t) /\ Ord(s[k + 1]) < Ord(t[k + 1])

RECURSIVE InsertSorted(_, _)
InsertSorted(x, s) ==
  IF s = <<>> THEN <<x>>
  ELSE IF LexLess(x, Head(s)) THEN <<x>> \o s
  ELSE <<Head(s)>> \o InsertSorted(x, Tail(s))

\* sorted(seq)
RECURSIVE sorted(_)
sorted(s) ==
  IF s = <<>> THEN <<>> ELSE InsertSorted(Head(s), sorted(Tail(s)))

\* s.startswith(p)
startswith(s, p) == Len(p) <= Len(s) /\ SubSeq(s, 1, Len(p)) = p

\* to_native(s).replace("'", '')
strip_quotes(s) == SelectSeq(s, LAMBDA c : c # "'")

SetVerb == <<"s", "e", "t">>
DeleteVerb == <<"d", "e", "l", "e", "t", "e">>
SetPrefix == SetVerb \o <<" ">>
DeletePrefix == DeleteVerb \o <<" ">>

\* re.sub('^set ', 'delete ', line)
set_to_delete(line) ==
  IF startswith(line, SetPrefix)
  THEN DeletePrefix \o SubSeq(line, Len(SetPrefix) + 1, Len(line))
  ELSE line

\* line.rsplit(' ', 1)[0]: the line up to its last space, the whole line
\* when it holds no space.
rsplit_head(line) ==
  IF \E i \in 1..Len(line) : line[i] = " "
  THEN LET last == CHOOSE i \in 1..Len(line) :
                     /\ line[i] = " "
                     /\ \A j \in (i + 1)..Len(line) : line[j] # " "
       IN SubSeq(line, 1, last - 1)
  ELSE line

\* cmd.replace(' {', '')
RECURSIVE drop_block_open(_)
drop_block_open(s) ==
  IF s = <<>> THEN <<>>
  ELSE IF startswith(s, <<" ", "{">>) THEN drop_block_open(SubSeq(s, 3, Len(s)))
  ELSE <<Head(s)>> \o drop_block_open(Tail(s))

\* Number of occurrences of x in seq.
Count(seq, x) == Cardinality({i \in 1..Len(seq) : seq[i] = x})

\* ------------------------------------------------------------ NetworkConfig
\* module_utils.network.common.config.NetworkConfig is imported, not part of
\* edgeos_config.py.  Its parse keeps every line that holds more than braces,
\* as an item with the raw line and the line's path: the stripped texts of its
\* ancestors (by indentation) and its own, joined by spaces.
RECURSIVE LeadingSpaces(_)
LeadingSpaces(l) ==
  IF l # <<>> /\ Head(l) = " " THEN 1 + LeadingSpaces(Tail(l)) ELSE 0

RECURSIVE TrailingSpaces(_)
TrailingSpaces(l) ==
  IF l # <<>> /\ l[Len(l)] = " "
  THEN 1 + TrailingSpaces(SubSeq(l, 1, Len(l) - 1)) ELSE 0

\* str.strip()
strip(l) ==
  IF LeadingSpaces(l) = Len(l) THEN <<>>
  ELSE SubSeq(l, LeadingSpaces(l) + 1, Len(l) - TrailingSpaces(l))

RECURSIVE JoinSpace(_)
JoinSpace(parts) ==
  IF parts = <<>> THEN <<>>
  ELSE IF Len(parts) = 1 THEN parts[1]
  ELSE parts[1] \o <<" ">> \o JoinSpace(Tail(parts))

\* indents after a line of indentation n: popped down to n, n pushed when new.
RECURSIVE PopIndents(_, _)
PopIndents(indents, n) ==
  IF indents[Len(indents)] > n /\ Len(indents) > 1
  THEN PopIndents(SubSeq(indents, 1, Len(indents) - 1), n)
  ELSE indents

PushIndent(indents, n) ==
  IF n > indents[Len(indents)] THEN Append(indents, n) ELSE indents

\* NetworkConfig.parse from line i on; ancestors holds the stripped texts of
\* the open ancestors, indents their indentation columns.
RECURSIVE ParseFrom(_, _, _, _)
ParseFrom(text, i, ancestors, indents) ==
  IF i > Len(text) THEN <<>>
  ELSE
    LET raw == text[i]
        own == strip(raw)
        bare == strip(SelectSeq(raw, LAMBDA c : c \notin {"{", "}", ";"}))
    IN IF bare = <<>> THEN ParseFrom(text, i + 1, ancestors, indents)
       ELSE IF LeadingSpaces(raw) = 0
       THEN <<[raw |-> raw, line |-> own]>>
              \o ParseFrom(text, i + 1, <<own>>, <<0>>)
       ELSE
         LET ind == PushIndent(PopIndents(indents, LeadingSpaces(raw)),
                               LeadingSpaces(raw))
             curlevel == Len(ind) - 1
             parents == SubSeq(ancestors, 1, curlevel)
             item == [raw |-> raw, line |-> JoinSpace(Append(parents, own))]
         IN IF curlevel > Len(ancestors)
            THEN <<item>> \o ParseFrom(text, i + 1, ancestors, ind)
            ELSE <<item>> \o ParseFrom(text, i + 1, Append(parents, own), ind)

\* NetworkConfig(indent=4, contents=config).items
NetworkConfigItems(text) == ParseFrom(text, 1, <<>>, <<0>>)

\* ------------------------------------------------------------ config_to_commands
\* config.startswith('set') or config.startswith('delete'): the text starts
\* as its first line does.
set_format(text) ==
  /\ text # <<>>
  /\ startswith(text[1], SetVerb) \/ startswith(text[1], DeleteVerb)

\* The inner loop with the test turned round (entry.startswith(item)): the
\* more specific earlier entry is dropped for a more general later line.
entry_dropped_reversed(commands, item) ==
  IF \E i \in 1..Len(commands) : startswith(commands[i], item)
  THEN LET index == CHOOSE i \in 1..Len(commands) :
                      /\ startswith(commands[i], item)
                      /\ \A j \in 1..(i - 1) : ~startswith(commands[j], item)
       IN SubSeq(commands, 1, index - 1) \o SubSeq(commands, index + 1, Len(commands))
  ELSE commands

\* The inner loop of lines 203-206: the first retained entry that item
\* starts with is deleted.
entry_dropped(commands, item) ==
  IF \E i \in 1..Len(commands) : startswith(item, commands[i])
  THEN LET index == CHOOSE i \in 1..Len(commands) :
                      /\ startswith(item, commands[i])
                      /\ \A j \in 1..(i - 1) : ~startswith(item, commands[j])
       IN SubSeq(commands, 1, index - 1) \o SubSeq(commands, index + 1, Len(commands))
  ELSE commands

\* Lines 200-207: "this filters out less specific lines".
RECURSIVE less_specific_filtered(_, _)
less_specific_filtered(candidate, commands) ==
  IF candidate = <<>> THEN commands
  ELSE less_specific_filtered(Tail(candidate),
                              Append(entry_dropped(commands, Head(candidate)),
                                     Head(candidate)))

\* 'set %s' % cmd.replace(' {', '')
set_command_of(cmd) == SetPrefix \o drop_block_open(cmd)

config_to_commands(text) ==
  LET items == NetworkConfigItems(text)
  IN IF ~set_format(text)
     THEN LET candidate == [i \in 1..Len(items) |-> items[i].line]
              commands == less_specific_filtered(candidate, <<>>)
          IN [i \in 1..Len(commands) |-> set_command_of(commands[i])]
     ELSE [i \in 1..Len(items) |-> items[i].raw]

\* get_candidate: src or lines, the lines joined by '\n'.
get_candidate(src, lines) ==
  config_to_commands(IF src # <<>> THEN src ELSE lines)

\* ------------------------------------------------------------ diff_config
\* The device text, line by line, with the quotes left in.
live_lines_raw(config) == config

\* Line 250: the device text, line by line, quotes removed.

live_lines(config) == [i \in 1..Len(config) |-> strip_quotes(config[i])]

\* Lines 255-262: the candidate lines, quotes removed, by verb.
stripped(commands) == [i \in 1..Len(commands) |-> strip_quotes(commands[i])]

delete_commands(commands) ==
  SelectSeq(stripped(commands), LAMBDA line : startswith(line, DeletePrefix))

set_commands(commands) ==
  SelectSeq(stripped(commands),
            LAMBDA line : ~startswith(line, DeletePrefix) /\ startswith(line, SetPrefix))

invalid_commands_of(commands) ==
  SelectSeq(stripped(commands),
            LAMBDA line : ~startswith(line, DeletePrefix) /\ ~startswith(line, SetPrefix))

\* updates left empty: the delete commands are not seeded.
seeded_none(deletes) == <<>>

\* Lines 264-266: the delete commands always run first.

seeded(deletes) == IF deletes # <<>> THEN deletes ELSE <<>>

\* Line 269: the set commands not already in the device configuration.
not_in_config(sets, config) ==
  SelectSeq(sets, LAMBDA line : line \notin Range(config))

\* Lines 272-277: for each set command, one copy per delete command that its
\* delete form starts with.
RECURSIVE copies(_, _)
copies(line, n) == IF n = 0 THEN <<>> ELSE <<line>> \o copies(line, n - 1)

matching_deletes(line, deletes) ==
  Cardinality({j \in 1..Len(deletes) : startswith(set_to_delete(line), deletes[j])})

\* The restoration test turned round (dline.startswith(search)).
matching_deletes_reversed(line, deletes) ==
  Cardinality({j \in 1..Len(deletes) : startswith(deletes[j], set_to_delete(line))})

RECURSIVE added_back_reversed(_, _)
added_back_reversed(sets, deletes) ==
  IF deletes = <<>> \/ sets = <<>> THEN <<>>
  ELSE copies(Head(sets), matching_deletes_reversed(Head(sets), deletes))
         \o added_back_reversed(Tail(sets), deletes)

\* No restoration pass at all.
added_back_never(sets, deletes) == <<>>

RECURSIVE added_back(_, _)
added_back(sets, deletes) ==
  IF deletes = <<>> \/ sets = <<>> THEN <<>>
  ELSE copies(Head(sets), matching_deletes(Head(sets), deletes))
         \o added_back(Tail(sets), deletes)

\* updates with the new set commands put before the delete commands.
diff_updates_sets_first(commands, config) ==
  not_in_config(set_commands(commands), live_lines(config))
    \o seeded(delete_commands(commands))
    \o added_back(set_commands(commands), delete_commands(commands))

\* Lines 264-277: updates as diff_config returns it.
diff_updates(commands, config) ==
  seeded(delete_commands(commands))
    \o not_in_config(set_commands(commands), live_lines(config))
    \o added_back(set_commands(commands), delete_commands(commands))

\* Lines 280-290: the device lines that are no candidate set command and
\* whose search key (the line less its last word) starts no update.
diff_unmanaged(commands, config) ==
  LET unmanaged == Range(live_lines(config)) \ Range(set_commands(commands))
      updates == diff_updates(commands, config)
      matches == {line \in unmanaged :
                    \E i \in 1..Len(updates) : startswith(updates[i], rsplit_head(line))}
  IN unmanaged \ matches

\* list(set(...)): a set is listed in no particular order.
Listings(S) ==
  {p \in [1..Cardinality(S) -> S] : \A i, j \in 1..Cardinality(S) : p[i] = p[j] => i = j}

\* ------------------------------------------------------------ delete_unmanaged
\* Lines 304-306: each unmanaged line, as a delete, appended to updates.
delete_unmanaged(upd, unmanaged) ==
  upd \o [i \in 1..Len(unmanaged) |-> set_to_delete(unmanaged[i])]

\* ------------------------------------------------------------ inputs
Str_set_a_qb == <<"s", "e", "t", " ", "a", " ", "'", "b", "'">>
Str_set_c == <<"s", "e", "t", " ", "c">>
Str_set_a_d_e == <<"s", "e", "t", " ", "a", " ", "d", " ", "e">>
Str_delete_a == <<"d", "e", "l", "e", "t", "e", " ", "a">>
Str_delete_a_b_c == <<"d", "e", "l", "e", "t", "e", " ", "a", " ", "b", " ", "c">>
Str_a == <<"a">>
Str_a_b == <<"a", " ", "b">>
Str_x_y == <<"x", " ", "y">>
Str_a_open == <<"a", " ", "{">>
Str_in_b == <<" ", " ", " ", " ", "b">>
Str_in_c_d == <<" ", " ", " ", " ", "c", " ", "d">>
Str_close == <<"}">>

\* The lines a task may list, and the lines a device may hold.
CandidatePool ==
  {Str_set_a_qb, Str_set_c, Str_delete_a, Str_delete_a_b_c, Str_a, Str_a_b}

LivePool == {Str_set_a_qb, Str_set_c, Str_set_a_d_e, Str_x_y}

SeqsUpTo(S, n) == UNION {[1..k -> S] : k \in 0..n}

LinesInputs == SeqsUpTo(CandidatePool, MaxLines) \ {<<>>}

\* Bracket-format source files.
SrcInputs ==
  { <<Str_a_open, Str_in_b, Str_close>>,
    <<Str_a_open, Str_in_b, Str_in_c_d, Str_close>>,
    <<Str_a_open, Str_in_b, Str_close, Str_a>> }

LiveInputs == SeqsUpTo(LivePool, MaxLive)

\* ------------------------------------------------------------ state
VARIABLES
  lines,             \* module.params['lines'] (<<>>: not given)
  src,               \* module.params['src'], its lines (<<>>: not given)
  match,             \* module.params['match']
  delete_unmanaged_param,  \* module.params['delete_unmanaged']
  config,            \* module.params['config'] or get_config(module), its lines
  pc,                \* where run is
  candidate,         \* run's candidate
  updates,           \* run's updates
  unmanaged_config,  \* run's unmanaged_config
  invalid_commands,  \* run's invalid_commands
  result,            \* the result dict
  loaded             \* the calls of load_config, each its commands

vars ==
  <<lines, src, match, delete_unmanaged_param, config, pc, candidate, updates,
    unmanaged_config, invalid_commands, result, loaded>>

params == <<lines, src, match, delete_unmanaged_param>>

NoResult ==
  [commands |-> <<>>, unmanaged |-> <<>>, invalid |-> <<>>, changed |-> FALSE,
   warnings |-> <<>>]

\* main, lines 385-399: the module is built with one of lines and src, and
\* result = dict(changed=False, warnings=[]); run is about to be called.
Init ==
  /\ \/ lines \in LinesInputs /\ src = <<>>
     \/ lines = <<>> /\ src \in SrcInputs
  /\ match \in {"line", "none"}
  /\ delete_unmanaged_param \in BOOLEAN
  /\ config \in LiveInputs
  /\ pc = "run"
  /\ candidate = <<>>
  /\ updates = <<>>
  /\ unmanaged_config = <<>>
  /\ invalid_commands = <<>>
  /\ result = NoResult
  /\ loaded = <<>>

\* run, lines 325-328.
GetCandidate ==
  /\ pc = "run"
  /\ candidate' = get_candidate(src, lines)
  /\ pc' = "diff"
  /\ UNCHANGED <<params, config, updates, unmanaged_config, invalid_commands,
                 result, loaded>>

\* run, line 332: diff_config(candidate, config).
DiffConfig ==
  /\ pc = "diff"
  /\ updates' = diff_updates(candidate, config)
  /\ unmanaged_config' \in Listings(diff_unmanaged(candidate, config))
  /\ invalid_commands' = invalid_commands_of(candidate)
  /\ pc' = "promote"
  /\ UNCHANGED <<params, config, candidate, result, loaded>>

\* run, lines 335-355.
WarningsOf(unmanaged, invalid) ==
  (IF unmanaged # <<>> THEN <<"unmanaged">> ELSE <<>>)
    \o (IF invalid # <<>> THEN <<"invalid">> ELSE <<>>)

Finish ==
  /\ pc = "promote"
  /\ updates' = IF unmanaged_config # <<>> /\ delete_unmanaged_param
                THEN delete_unmanaged(updates, unmanaged_config)
                ELSE updates
  /\ result' = [commands |-> updates',
                unmanaged |-> sorted(unmanaged_config),
                invalid |-> sorted(invalid_commands),
                changed |-> updates' # <<>>,
                warnings |-> WarningsOf(unmanaged_config, invalid_commands)]
  /\ loaded' = IF updates' # <<>> THEN Append(loaded, updates') ELSE loaded
  /\ pc' = "done"
  /\ UNCHANGED <<params, config, candidate, unmanaged_config, invalid_commands>>

\* The task runs again, with the same arguments, against whatever the device
\* holds by then.
Rerun ==
  /\ pc = "done"
  /\ config' \in LiveInputs
  /\ pc' = "run"
  /\ candidate' = <<>>
  /\ updates' = <<>>
  /\ unmanaged_config' = <<>>
  /\ invalid_commands' = <<>>
  /\ result' = NoResult
  /\ loaded' = <<>>
  /\ UNCHANGED params

Next == GetCandidate \/ DiffConfig \/ Finish \/ Rerun

Spec == Init /\ [][Next]_vars

\* ------------------------------------------------------------ properties
IsSet(line) == startswith(line, SetPrefix)
IsDelete(line) == startswith(line, DeletePrefix)
IsStatement(line) == IsSet(line) \/ IsDelete(line)

\* Every delete statement of u stands before every set statement of u.
DeletesBeforeSets(u) ==
  \A i, j \in 1..Len(u) : IsDelete(u[i]) /\ IsSet(u[j]) => i < j

\* Set statement s is `set P <rest>` (or `set P`) for delete statement d = `delete P`.
UnderPath(s, d) ==
  /\ IsSet(s)
  /\ IsDelete(d)
  /\ startswith(set_to_delete(s), d)
  /\ Len(s) + 3 = Len(d) \/ set_to_delete(s)[Len(d) + 1] = " "

\* Each line of unmanaged as a delete, in unmanaged's order.
Promoted(unmanaged) == [i \in 1..Len(unmanaged) |-> set_to_delete(unmanaged[i])]

Diffed == pc \in {"promote", "done"}

\* C1: idempotence.  When the candidate is the device's own lines and all of
\* them are set statements, diff_config returns no update and no invalid
\* line, nothing is loaded and the run reports no change.
C1_Idempotence ==
  (/\ Diffed
   /\ candidate = config
   /\ \A i \in 1..Len(config) : IsSet(config[i]))
  => /\ updates = <<>>
     /\ invalid_commands = <<>>
     /\ pc = "done" => /\ result.commands = <<>>
                       /\ result.invalid = <<>>
                       /\ ~result.changed
                       /\ loaded = <<>>

C1_Witness ==
  /\ pc = "done"
  /\ candidate = config
  /\ Len(config) = 2
  /\ config[1] # config[2]
  /\ \A i \in 1..Len(config) : IsSet(config[i])
  /\ \E i \in 1..Len(config) : strip_quotes(config[i]) # config[i]
  /\ ~result.changed

\* C2: restoration after delete.  When the candidate holds `delete P` and a
\* set statement under P, the updates diff_config returns hold both, also
\* when the set statement is already in the device configuration.
C2_RestorationAfterDelete ==
  pc = "promote" =>
    \A i, j \in 1..Len(candidate) :
      LET d == strip_quotes(candidate[i])
          s == strip_quotes(candidate[j])
      IN UnderPath(s, d) => d \in Range(updates) /\ s \in Range(updates)

C2_Witness ==
  /\ pc = "promote"
  /\ \E i, j \in 1..Len(candidate) :
       /\ UnderPath(strip_quotes(candidate[j]), strip_quotes(candidate[i]))
       /\ strip_quotes(candidate[j]) \in Range(live_lines(config))
       /\ strip_quotes(candidate[j]) \in Range(updates)

\* C3 as stated: at every stage, also after delete_unmanaged has promoted
\* the unmanaged lines and in what load_config is given, every delete
\* statement of updates stands before every set statement.
C3_DeleteBeforeSetEverywhere ==
  /\ DeletesBeforeSets(updates)
  /\ \A k \in 1..Len(loaded) : DeletesBeforeSets(loaded[k])

\* C3 amended: in updates as diff_config returns it, and in the final
\* commands of a run that promotes no unmanaged line, every delete statement
\* stands before every set statement; the deletes delete_unmanaged promotes
\* are appended after the set statements.
C3_DeleteBeforeSetFromDiff ==
  /\ pc = "promote" => DeletesBeforeSets(updates)
  /\ (pc = "done" /\ ~(delete_unmanaged_param /\ unmanaged_config # <<>>))
       => /\ DeletesBeforeSets(result.commands)
          /\ \A k \in 1..Len(loaded) : DeletesBeforeSets(loaded[k])
  /\ (pc = "done" /\ delete_unmanaged_param /\ unmanaged_config # <<>>)
       => /\ Len(updates) >= Len(unmanaged_config)
          /\ SubSeq(updates, Len(updates) - Len(unmanaged_config) + 1, Len(updates))
               = Promoted(unmanaged_config)

C3_Witness ==
  /\ pc = "promote"
  /\ \E i, j \in 1..Len(updates) : IsDelete(updates[i]) /\ IsSet(updates[j])
  /\ \E i \in 1..Len(updates) : IsSet(updates[i]) /\ updates[i] \notin Range(live_lines(config))

\* C4: when updates holds `delete P` and the device holds a line
\* `set P <rest>` that is no candidate set statement, diff_config does not
\* return that line as unmanaged.
C4_SubsumedByDelete ==
  pc = "promote" =>
    \A i \in 1..Len(updates) :
      \A line \in Range(live_lines(config)) \ Range(set_commands(candidate)) :
        (UnderPath(line, updates[i]) /\ Len(line) + 3 > Len(updates[i]))
          => line \notin Range(unmanaged_config)

\* C5: with match = none the device configuration is ignored: every
\* candidate set and delete statement is given to load_config.
C5_MatchNoneLoadsAll ==
  (pc = "done" /\ match = "none") =>
    \A s \in Range(set_commands(candidate)) \cup Range(delete_commands(candidate)) :
      \E k \in 1..Len(loaded) : s \in Range(loaded[k])

\* C6: when delete_unmanaged is on and there are unmanaged lines, the final
\* commands are the updates diff_config returned followed by the unmanaged
\* lines as deletes, in the sorted order result['unmanaged'] reports.
C6_PromotionSortedOrder ==
  (pc = "done" /\ delete_unmanaged_param /\ result.unmanaged # <<>>) =>
    result.commands = diff_updates(candidate, config) \o Promoted(result.unmanaged)

\* C7: every element of updates, as diff_config returns it and after
\* promotion, and every command given to load_config, begins with `set ` or
\* `delete `.
C7_UpdatesWellFormed ==
  /\ \A i \in 1..Len(updates) : IsStatement(updates[i])
  /\ \A k \in 1..Len(loaded) : \A i \in 1..Len(loaded[k]) : IsStatement(loaded[k][i])

\* The text config_to_commands is given, and the paths of its lines.
Contents == IF src # <<>> THEN src ELSE lines
Paths == [i \in 1..Len(NetworkConfigItems(Contents)) |-> NetworkConfigItems(Contents)[i].line]

\* C8 as stated: of two input statements one of which is a prefix of the
\* other, config_to_commands retains only the last.
C8_LastSeenOnly ==
  (/\ pc = "diff"
   /\ Len(Contents) = 2
   /\ startswith(Contents[1], Contents[2]) \/ startswith(Contents[2], Contents[1]))
  => /\ Len(candidate) = 1
     /\ candidate[1] \in {Contents[2], set_command_of(Contents[2])}

\* C8 amended: in the bracket branch an earlier line is dropped only for a
\* later line that starts with it: [a, a b] gives [a b], [a b, a] keeps both,
\* the last line is always retained; a text that begins with set or delete is
\* not collapsed at all.
C8_LessSpecificDropped ==
  pc = "diff" =>
    IF set_format(Contents)
    THEN candidate = [i \in 1..Len(NetworkConfigItems(Contents)) |->
                        NetworkConfigItems(Contents)[i].raw]
    ELSE /\ Len(Paths) = 2 =>
              candidate = IF startswith(Paths[2], Paths[1])
                          THEN <<set_command_of(Paths[2])>>
                          ELSE <<set_command_of(Paths[1]), set_command_of(Paths[2])>>
         /\ Paths # <<>> =>
              /\ candidate # <<>>
              /\ candidate[Len(candidate)] = set_command_of(Paths[Len(Paths)])
         /\ \A i \in 1..Len(Paths) :
              (\A j \in (i + 1)..Len(Paths) : ~startswith(Paths[j], Paths[i]))
                => set_command_of(Paths[i]) \in Range(candidate)
         /\ \A i, j \in 1..Len(Paths) :
              (/\ i < j
               /\ startswith(Paths[j], Paths[i])
               /\ \A k \in 1..(j - 1) : startswith(Paths[j], Paths[k]) => k = i
               /\ \A k \in j..Len(Paths) :
                    set_command_of(Paths[k]) # set_command_of(Paths[i]))
                => set_command_of(Paths[i]) \notin Range(candidate)

C8_Witness ==
  /\ pc = "diff"
  /\ ~set_format(Contents)
  /\ \E i, j \in 1..Len(Paths) :
       /\ i < j
       /\ startswith(Paths[j], Paths[i])
       /\ Len(candidate) < Len(Paths)
  /\ \E i, j \in 1..Len(Paths) :
       /\ i < j
       /\ startswith(Paths[i], Paths[j])
       /\ Paths[i] # Paths[j]
       /\ set_command_of(Paths[i]) \in Range(candidate)
       /\ set_command_of(Paths[j]) \in Range(candidate)

\* How often the restoration pass appended s: what updates holds of it beyond
\* the copies the idempotence filter let through.
ReAppended(s) ==
  Count(updates, s)
    > Count(not_in_config(set_commands(candidate), live_lines(config)), s)

\* C9 as stated: with delete commands present, a set statement is re-appended
\* exactly when its delete form is a prefix of some candidate delete statement.
C9_RestoredWhenPrefixOfDelete ==
  (pc = "promote" /\ delete_commands(candidate) # <<>>) =>
    \A s \in Range(set_commands(candidate)) :
      ReAppended(s) <=>
        \E d \in Range(delete_commands(candidate)) : startswith(d, set_to_delete(s))

\* C9 amended: a set statement is re-appended exactly when some candidate
\* delete statement is a prefix of its delete form, once for each such delete
\* statement.
C9_RestoredWhenDeleteIsPrefix ==
  pc = "promote" =>
    \A s \in Range(set_commands(candidate)) :
      /\ ReAppended(s) <=>
           \E d \in Range(delete_commands(candidate)) : startswith(set_to_delete(s), d)
      /\ Count(updates, s) =
           Count(set_commands(candidate), s)
             * ((IF s \in Range(live_lines(config)) THEN 0 ELSE 1)
                + Cardinality({j \in 1..Len(delete_commands(candidate)) :
                     startswith(set_to_delete(s), delete_commands(candidate)[j])}))

C9_Witness ==
  /\ pc = "promote"
  /\ \E s \in Range(set_commands(candidate)) :
       /\ s \in Range(live_lines(config))
       /\ ReAppended(s)
       /\ \E d \in Range(delete_commands(candidate)) :
            startswith(set_to_delete(s), d) /\ ~startswith(d, set_to_delete(s))

\* C10: deletes are never filtered against the device.  The updates
\* diff_config returns start with the candidate's delete statements in their
\* order, so a candidate with a delete statement always has updates, is
\* always loaded and always reports a change, run after run.
C10_DeletesAlwaysApplied ==
  LET dels == SelectSeq(stripped(candidate), IsDelete)
  IN /\ Diffed => startswith(updates, dels)
     /\ (pc = "done" /\ dels # <<>>)
          => /\ result.commands # <<>>
             /\ result.changed
             /\ loaded = <<result.commands>>

C10_Witness ==
  /\ pc = "done"
  /\ config # <<>>
  /\ Len(SelectSeq(stripped(candidate), IsDelete)) = 2
  /\ \A line \in Range(live_lines(config)) :
       \A d \in Range(stripped(candidate)) : ~startswith(set_to_delete(line), d)
  /\ result.changed
  /\ result.commands = stripped(candidate)

====
